---- MODULE Spec2Model ----
(***************************************************************************)
(* Model of hyperlane_network_exporter.py: the HyperlaneContractExporter   *)
(* lifecycle (init / tick / start / stop / run), the asyncio tasks it      *)
(* creates, the process-wide gauge and the aiohttp startup/shutdown hooks. *)
(*                                                                         *)
(* asyncio is a single-threaded cooperative scheduler: every action below  *)
(* is one uninterrupted run of a coroutine between two suspension points   *)
(* (or one scheduled callback).  A future that completes only SCHEDULES    *)
(* the wake-up of the task awaiting it; the wake-up is a later step.       *)
(***************************************************************************)
EXTENDS Integers, Sequences, FiniteSets

\* ---------------------------------------------------------------- bounds
MaxTicks   == 2   \* tick() executions (direct calls and loop-spawned tasks)
MaxRunners == 2   \* run() tasks created by start()
MaxCalls   == 4   \* API calls (init, tick, start, stop) the caller issues

\* --------------------------------------------------------- external input
\* Chain ids the RPC endpoint may report: the two supported ones and two others.
ChainIds == {1, 17000, 5, 11155111}
\* Checkpoint indices latestCheckpoint() may return; 0 stands for "no sample".
Values   == {1, 2}

\* ------------------------------------------------------ SupportedNetworks
SupportedNetworks == {"MAINNET", "HOLESKY"}

\* The enum member's value, which is also what __str__ returns.
NetworkValue(n) ==
    CASE n = "MAINNET" -> "mainnet"
      [] n = "HOLESKY" -> "holesky"

Labels == {NetworkValue(n) : n \in SupportedNetworks}

\* SupportedNetworks.hyperlane_merkle_tree_hook_contract
hyperlane_merkle_tree_hook_contract(n) ==
    CASE NetworkValue(n) = "holesky" -> "0x98AAE089CaD930C64a76dD2247a2aC5773a4B8cE"
      [] NetworkValue(n) = "mainnet" -> "0x48e6c30B97748d1e2e03bf3e9FbE3890ca5f8CCA"
      [] OTHER -> "RuntimeError"

\* init() with a third branch: chain id 5 taken for a supported testnet.
ResolveNetworkGoerli(chain_id) ==
    IF chain_id = 1 THEN "MAINNET"
    ELSE IF chain_id \in {17000, 5} THEN "HOLESKY"
    ELSE "unsupported"

\* The chain-id dispatch of init(): the member resolved, or "unsupported".
ResolveNetwork(chain_id) ==
    IF chain_id = 1 THEN "MAINNET"
    ELSE IF chain_id = 17000 THEN "HOLESKY"
    ELSE "unsupported"
\* ------------------------------------------------------------------ state
VARIABLES
    network,        \* self.network: "unset" until init() assigns it
    contract,       \* self.contract (cached_property): address it was built for, "unset" if not cached
    stopping,       \* self.stopping
    stopped,        \* self.stopped (asyncio.Event): is_set()
    sessionClosed,  \* self.session.closed
    runnerTask,     \* self._runner_task: index into runners, 0 while the attribute is absent
    runners,        \* the run() tasks created so far
    ticks,          \* the tick() executions created so far
    ready,          \* self.loop's ready queue: the scheduled task steps and callbacks, FIFO
    gauge,          \* hyperlane_contract_latest_checkpoint: label -> sample
    pc,             \* where the caller's coroutine is suspended
    hook,           \* "api": calls are issued freely; else the aiohttp hooks' position
    raised,         \* the exception the last API call raised, "none" if it returned
    calls,          \* number of API calls issued
    stopReturns,    \* number of stop() calls that returned normally
    completed,      \* the gauge writes so far, in order: tick id, label, value
    scraped         \* the samples of the last GET /metrics

vars == <<network, contract, stopping, stopped, sessionClosed, runnerTask,
          runners, ticks, ready, gauge, pc, hook, raised, calls, stopReturns,
          completed, scraped>>

NoSample == [value |-> 0, src |-> "none"]

\* HyperlaneContractExporter.__init__ and the module-level Gauge
InitExporter ==
    /\ network = "unset"
    /\ contract = "unset"
    /\ stopping = FALSE
    /\ stopped = FALSE
    /\ sessionClosed = FALSE
    /\ runnerTask = 0
    /\ runners = <<>>
    /\ ticks = <<>>
    /\ ready = <<>>
    /\ gauge = [l \in Labels |-> NoSample]
    /\ pc = "idle"
    /\ raised = "none"
    /\ calls = 0
    /\ stopReturns = 0
    /\ completed = <<>>
    /\ scraped = {}

\* The exporter driven by arbitrary API calls (tests, embedding code).
Init == InitExporter /\ hook = "api"

\* The exporter driven by get_application's on_startup / on_shutdown hooks.
InitApp == InitExporter /\ hook = "init"

\* ------------------------------------------------------ the event loop
\* A scheduled step of the loop: k is "tick" (a step of tick task i), "run" (a
\* step of run() task i), "done" (the done callback of run() task i) or "stop"
\* (the wake-up of the stop() waiting on the event).
Handle(k, i) == [k |-> k, i |-> i]

InReady(q, h) == \E j \in 1..Len(q) : q[j] = h

\* loop.call_soon: a wake-up is scheduled once, behind what is already ready.
Sched(q, h) == IF InReady(q, h) THEN q ELSE Append(q, h)

\* The loop runs the ready steps in the order they were scheduled.
AtHead(h) == ready # <<>> /\ Head(ready) = h

\* self.stopped.set(): wakes the stop() suspended in self.stopped.wait().
WakeStop(q) == IF pc = "stop_wait" THEN Sched(q, Handle("stop", 0)) ELSE q

\* ------------------------------------------------- start_exporter_app etc.
\* Which API call the driver may issue next.
Allowed(op) ==
    /\ pc = "idle"
    /\ calls < MaxCalls
    /\ \/ hook = "api"
       \/ hook = op
       \/ op = "stop" /\ hook = "serving"

\* A startup hook that swallows exceptions and runs its next statement.
HookNextSwallow(op, ok) ==
    IF hook = "api" THEN "api"
    ELSE CASE op = "init"  -> "tick"
           [] op = "tick"  -> "start"
           [] op = "start" -> "serving"
           [] op = "stop"  -> "exited"

\* The hook position after `op` returned (ok) or raised (~ok): an exception in
\* start_exporter_app propagates, the statements after it are not run.
HookNext(op, ok) ==
    IF hook = "api" THEN "api"
    ELSE IF ~ok THEN "failed"
    ELSE CASE op = "init"  -> "tick"
           [] op = "tick"  -> "start"
           [] op = "start" -> "serving"
           [] op = "stop"  -> "exited"

\* An API call returns to its caller, or raises err.
Returned(op, err) ==
    /\ pc' = "idle"
    /\ raised' = err
    /\ hook' = HookNext(op, err = "none")

\* --------------------------------------------------------------- init()

\* init(), up to its await: the chain-id request is sent.
call_init ==
    /\ Allowed("init")
    /\ calls' = calls + 1
    /\ pc' = "init"
    /\ UNCHANGED <<network, contract, stopping, stopped, sessionClosed,
                   runnerTask, runners, ticks, ready, gauge, hook, raised,
                   stopReturns, completed, scraped>>

\* init(), after `await self.w3.eth.chain_id` answered chain_id.
init_resume(chain_id) ==
    /\ pc = "init"
    /\ ~sessionClosed
    /\ IF ResolveNetwork(chain_id) \in SupportedNetworks
       THEN /\ network' = ResolveNetwork(chain_id)
            /\ Returned("init", "none")
       ELSE /\ network' = network
            /\ Returned("init", "RuntimeError: Unsupported network")
    /\ UNCHANGED <<contract, stopping, stopped, sessionClosed, runnerTask,
                   runners, ticks, ready, gauge, calls, stopReturns,
                   completed, scraped>>

\* init(), when the chain-id request raises (transport error, closed session).
init_fails ==
    /\ pc = "init"
    /\ Returned("init", "TransportError")
    /\ UNCHANGED <<network, contract, stopping, stopped, sessionClosed,
                   runnerTask, runners, ticks, ready, gauge, calls,
                   stopReturns, completed, scraped>>

\* --------------------------------------------------------------- tick()
\* The contract property as tick() reads it: built for the network resolved at
\* its first access and cached from then on, so every call() of an exporter
\* goes to the one address held in `contract`.
ContractFor(n) ==
    IF contract = "unset" THEN hyperlane_merkle_tree_hook_contract(n) ELSE contract

\* A tick() execution: who started it, where it is, and the value its contract
\* call returned once it did.  Phases: "created" (task not yet run), "awaiting"
\* (suspended in the contract call), "resolved" (the call returned, wake-up
\* scheduled), and the final "done" (gauge written), "failed" (the call
\* raised), "crashed" (AttributeError before the call).
NewTick(origin, phase) == [origin |-> origin, phase |-> phase, value |-> 0]

\* tick() awaited directly by the caller, up to its await.  Reading
\* self.contract before init() raises AttributeError (self.network is absent).
call_tick ==
    /\ Allowed("tick")
    /\ calls' = calls + 1
    /\ IF network = "unset"
       THEN /\ Returned("tick", "AttributeError: network")
            /\ UNCHANGED <<contract, ticks>>
       ELSE /\ Len(ticks) < MaxTicks
            /\ contract' = ContractFor(network)
            /\ ticks' = Append(ticks, NewTick("call", "awaiting"))
            /\ pc' = "tick"
            /\ UNCHANGED <<hook, raised>>
    /\ UNCHANGED <<network, stopping, stopped, sessionClosed, runnerTask,
                   runners, ready, gauge, stopReturns, completed, scraped>>

\* A tick() that publishes a placeholder sample before it asks the contract.
tick_begin_presets(t) ==
    /\ AtHead(Handle("tick", t))
    /\ ticks[t].phase = "created"
    /\ ready' = Tail(ready)
    /\ IF network = "unset"
       THEN /\ ticks' = [ticks EXCEPT ![t].phase = "crashed"]
            /\ UNCHANGED <<contract, gauge>>
       ELSE /\ contract' = ContractFor(network)
            /\ ticks' = [ticks EXCEPT ![t].phase = "awaiting"]
            /\ gauge' = [gauge EXCEPT ![NetworkValue(network)] =
                            [value |-> 1, src |-> ContractFor(network)]]
    /\ UNCHANGED <<network, stopping, stopped, sessionClosed, runnerTask,
                   runners, pc, hook, raised, calls, stopReturns, completed,
                   scraped>>

\* First step of a tick() task created by run(), up to its await.
tick_begin(t) ==
    /\ AtHead(Handle("tick", t))
    /\ ticks[t].phase = "created"
    /\ ready' = Tail(ready)
    /\ IF network = "unset"
       THEN /\ ticks' = [ticks EXCEPT ![t].phase = "crashed"]
            /\ UNCHANGED contract
       ELSE /\ contract' = ContractFor(network)
            /\ ticks' = [ticks EXCEPT ![t].phase = "awaiting"]
    /\ UNCHANGED <<network, stopping, stopped, sessionClosed, runnerTask,
                   runners, gauge, pc, hook, raised, calls, stopReturns,
                   completed, scraped>>

\* latestCheckpoint().call() answers v: the future completes and the wake-up
\* of the tick is scheduled.  A closed session answers nothing.
chain_call_returns(t, v) ==
    /\ t \in 1..Len(ticks)
    /\ ticks[t].phase = "awaiting"
    /\ ~sessionClosed
    /\ ticks' = [ticks EXCEPT ![t].phase = "resolved", ![t].value = v]
    /\ ready' = Append(ready, Handle("tick", t))
    /\ UNCHANGED <<network, contract, stopping, stopped, sessionClosed,
                   runnerTask, runners, gauge, pc, hook, raised, calls,
                   stopReturns, completed, scraped>>

\* A gauge that never goes down: the write keeps the larger value.
GaugeSetMax(g, n, v, src) ==
    [g EXCEPT ![NetworkValue(n)] =
        [value |-> IF g[NetworkValue(n)].value > v THEN g[NetworkValue(n)].value ELSE v,
         src |-> src]]

\* A counter instead of a gauge: the write adds the value.
GaugeInc(g, n, v, src) ==
    [g EXCEPT ![NetworkValue(n)] =
        [value |-> g[NetworkValue(n)].value + v, src |-> src]]

\* A gauge written under a hard-coded label.
GaugeSetFixedLabel(g, n, v, src) ==
    [g EXCEPT !["mainnet"] = [value |-> v, src |-> src]]

\* hyperlane_contract_latest_checkpoint.labels(self.network).set(value)
GaugeSet(g, n, v, src) ==
    [g EXCEPT ![NetworkValue(n)] = [value |-> v, src |-> src]]

\* tick(), after its await returned: write the gauge and finish.
tick_resume(t) ==
    /\ AtHead(Handle("tick", t))
    /\ ticks[t].phase = "resolved"
    /\ ready' = Tail(ready)
    /\ ticks' = [ticks EXCEPT ![t].phase = "done", ![t].value = 0]
    /\ gauge' = GaugeSet(gauge, network, ticks[t].value, contract)
    /\ completed' = Append(completed, [id |-> t, label |-> NetworkValue(network),
                                        value |-> ticks[t].value])
    /\ IF ticks[t].origin = "call"
       THEN Returned("tick", "none")
       ELSE UNCHANGED <<pc, hook, raised>>
    /\ UNCHANGED <<network, contract, stopping, stopped, sessionClosed,
                   runnerTask, runners, calls, stopReturns, scraped>>

\* A failing tick() that removes the series instead of leaving it stale.
tick_raises_drops_series(t) ==
    /\ t \in 1..Len(ticks)
    /\ ticks[t].phase = "awaiting"
    /\ ticks' = [ticks EXCEPT ![t].phase = "failed"]
    /\ gauge' = [gauge EXCEPT ![NetworkValue(network)] = NoSample]
    /\ IF ticks[t].origin = "call"
       THEN Returned("tick", "CallError")
       ELSE UNCHANGED <<pc, hook, raised>>
    /\ UNCHANGED <<network, contract, stopping, stopped, sessionClosed,
                   runnerTask, runners, ready, calls, stopReturns, completed,
                   scraped>>

\* tick(), when latestCheckpoint().call() raises (transport error, revert,
\* closed session): the exception leaves tick() before the gauge line, to the
\* caller of a direct call, into the never-awaited task of a spawned one.
tick_raises(t) ==
    /\ t \in 1..Len(ticks)
    /\ ticks[t].phase = "awaiting"
    /\ ticks' = [ticks EXCEPT ![t].phase = "failed"]
    /\ IF ticks[t].origin = "call"
       THEN Returned("tick", "CallError")
       ELSE UNCHANGED <<pc, hook, raised>>
    /\ UNCHANGED <<network, contract, stopping, stopped, sessionClosed,
                   runnerTask, runners, ready, gauge, calls, stopReturns,
                   completed, scraped>>

\* ------------------------------------------------------- start() / run()
\* A run() task: "created" (not yet run), "sleeping" (suspended in sleep()),
\* "done" (returned) or "cancelled"; cancelReq once Task.cancel() asked for it.
NewRunner == [phase |-> "created", cancelReq |-> FALSE]

\* A start() that makes the exporter restartable by clearing the flag.
start_clears_stopping ==
    /\ Allowed("start")
    /\ calls' = calls + 1
    /\ Len(runners) < MaxRunners
    /\ runners' = Append(runners, NewRunner)
    /\ runnerTask' = Len(runners) + 1
    /\ ready' = Append(ready, Handle("run", Len(runners) + 1))
    /\ stopping' = FALSE
    /\ Returned("start", "none")
    /\ UNCHANGED <<network, contract, stopped, sessionClosed, ticks, gauge,
                   stopReturns, completed, scraped>>

\* A start() that makes the exporter restartable by clearing the event.
start_resets_event ==
    /\ Allowed("start")
    /\ calls' = calls + 1
    /\ Len(runners) < MaxRunners
    /\ runners' = Append(runners, NewRunner)
    /\ runnerTask' = Len(runners) + 1
    /\ ready' = Append(ready, Handle("run", Len(runners) + 1))
    /\ stopped' = FALSE
    /\ Returned("start", "none")
    /\ UNCHANGED <<network, contract, stopping, sessionClosed, ticks, gauge,
                   stopReturns, completed, scraped>>

\* start(): create the run() task (its first step is scheduled), remember it,
\* register the done callback.
start ==
    /\ Allowed("start")
    /\ calls' = calls + 1
    /\ Len(runners) < MaxRunners
    /\ runners' = Append(runners, NewRunner)
    /\ runnerTask' = Len(runners) + 1
    /\ ready' = Append(ready, Handle("run", Len(runners) + 1))
    /\ Returned("start", "none")
    /\ UNCHANGED <<network, contract, stopping, stopped, sessionClosed, ticks,
                   gauge, stopReturns, completed, scraped>>

\* sleep(): the interval elapses, the wake-up of the run() task is scheduled.
sleep(r) ==
    /\ r \in 1..Len(runners)
    /\ runners[r].phase = "sleeping"
    /\ ~InReady(ready, Handle("run", r))
    /\ ready' = Append(ready, Handle("run", r))
    /\ UNCHANGED <<network, contract, stopping, stopped, sessionClosed,
                   runnerTask, runners, ticks, gauge, pc, hook, raised, calls,
                   stopReturns, completed, scraped>>

\* A run() that serialises its ticks: it spawns the next one only when none
\* of the earlier ones is still in flight.
run_awaits_tick(r) ==
    /\ AtHead(Handle("run", r))
    /\ IF runners[r].cancelReq
       THEN /\ runners' = [runners EXCEPT ![r].phase = "cancelled"]
            /\ ready' = Append(Tail(ready), Handle("done", r))
            /\ UNCHANGED <<ticks, stopped>>
       ELSE IF ~stopping
       THEN /\ Len(ticks) < MaxTicks
            /\ \A t \in 1..Len(ticks) :
                 ticks[t].phase \notin {"created", "awaiting", "resolved"}
            /\ ticks' = Append(ticks, NewTick("loop", "created"))
            /\ runners' = [runners EXCEPT ![r].phase = "sleeping"]
            /\ ready' = Append(Tail(ready), Handle("tick", Len(ticks) + 1))
            /\ UNCHANGED stopped
       ELSE /\ stopped' = TRUE
            /\ runners' = [runners EXCEPT ![r].phase = "done"]
            /\ ready' = Append(WakeStop(Tail(ready)), Handle("done", r))
            /\ UNCHANGED ticks
    /\ UNCHANGED <<network, contract, stopping, sessionClosed, runnerTask,
                   gauge, pc, hook, raised, calls, stopReturns, completed,
                   scraped>>

\* A run() that loops `while True`: only cancellation ends it.
run_ignores_stopping(r) ==
    /\ AtHead(Handle("run", r))
    /\ IF runners[r].cancelReq
       THEN /\ runners' = [runners EXCEPT ![r].phase = "cancelled"]
            /\ ready' = Append(Tail(ready), Handle("done", r))
            /\ UNCHANGED <<ticks, stopped>>
       ELSE /\ Len(ticks) < MaxTicks
            /\ ticks' = Append(ticks, NewTick("loop", "created"))
            /\ runners' = [runners EXCEPT ![r].phase = "sleeping"]
            /\ ready' = Append(Tail(ready), Handle("tick", Len(ticks) + 1))
            /\ UNCHANGED stopped
    /\ UNCHANGED <<network, contract, stopping, sessionClosed, runnerTask,
                   gauge, pc, hook, raised, calls, stopReturns, completed,
                   scraped>>

\* One step of a run() task: its first step, or its wake-up from sleep().
\* A cancelled task gets CancelledError at that point and runs no further
\* code; a finished task has its done callback scheduled.
run(r) ==
    /\ AtHead(Handle("run", r))
    /\ IF runners[r].cancelReq
       THEN /\ runners' = [runners EXCEPT ![r].phase = "cancelled"]
            /\ ready' = Append(Tail(ready), Handle("done", r))
            /\ UNCHANGED <<ticks, stopped>>
       ELSE IF ~stopping
       THEN /\ Len(ticks) < MaxTicks
            /\ ticks' = Append(ticks, NewTick("loop", "created"))
            /\ runners' = [runners EXCEPT ![r].phase = "sleeping"]
            /\ ready' = Append(Tail(ready), Handle("tick", Len(ticks) + 1))
            /\ UNCHANGED stopped
       ELSE /\ stopped' = TRUE
            /\ runners' = [runners EXCEPT ![r].phase = "done"]
            /\ ready' = Append(WakeStop(Tail(ready)), Handle("done", r))
            /\ UNCHANGED ticks
    /\ UNCHANGED <<network, contract, stopping, sessionClosed, runnerTask,
                   gauge, pc, hook, raised, calls, stopReturns, completed,
                   scraped>>

\* A done callback that only logs: the event is left to run() itself.
on_runner_task_done_noop(r) ==
    /\ AtHead(Handle("done", r))
    /\ ready' = Tail(ready)
    /\ UNCHANGED <<network, contract, stopping, stopped, sessionClosed,
                   runnerTask, runners, ticks, gauge, pc, hook, raised, calls,
                   stopReturns, completed, scraped>>

\* The done callback of a finished (returned or cancelled) run() task.
on_runner_task_done(r) ==
    /\ AtHead(Handle("done", r))
    /\ stopped' = TRUE
    /\ ready' = WakeStop(Tail(ready))
    /\ UNCHANGED <<network, contract, stopping, sessionClosed, runnerTask,
                   runners, ticks, gauge, pc, hook, raised, calls,
                   stopReturns, completed, scraped>>

\* --------------------------------------------------------------- stop()
\* Task.cancel(): no effect on a finished task, else the task is cancelled at
\* its next step ...
Cancel(rs, r) ==
    IF rs[r].phase \in {"done", "cancelled"} THEN rs
    ELSE [rs EXCEPT ![r].cancelReq = TRUE]

\* ... which cancelling the sleep it is suspended in schedules.
CancelWake(q, r) ==
    IF runners[r].phase \in {"done", "cancelled"} THEN q
    ELSE Sched(q, Handle("run", r))

\* A stop() that tolerates a missing loop task: it returns at once.
stop_guarded ==
    /\ Allowed("stop")
    /\ calls' = calls + 1
    /\ stopping' = TRUE
    /\ IF runnerTask = 0
       THEN /\ Returned("stop", "none")
            /\ UNCHANGED <<runners, ready, sessionClosed>>
       ELSE /\ runners' = Cancel(runners, runnerTask)
            /\ ready' = CancelWake(ready, runnerTask)
            /\ IF stopped
               THEN sessionClosed' = TRUE /\ pc' = "stop_close"
               ELSE sessionClosed' = sessionClosed /\ pc' = "stop_wait"
            /\ UNCHANGED <<hook, raised>>
    /\ UNCHANGED <<network, contract, stopped, runnerTask, ticks, gauge,
                   stopReturns, completed, scraped>>

\* A stop() that releases the session before it joins the loop.
stop_closes_first ==
    /\ Allowed("stop")
    /\ calls' = calls + 1
    /\ stopping' = TRUE
    /\ IF runnerTask = 0
       THEN /\ Returned("stop", "AttributeError: _runner_task")
            /\ UNCHANGED <<runners, ready, sessionClosed>>
       ELSE /\ runners' = Cancel(runners, runnerTask)
            /\ ready' = CancelWake(ready, runnerTask)
            /\ sessionClosed' = TRUE
            /\ IF stopped THEN pc' = "stop_close" ELSE pc' = "stop_wait"
            /\ UNCHANGED <<hook, raised>>
    /\ UNCHANGED <<network, contract, stopped, runnerTask, ticks, gauge,
                   stopReturns, completed, scraped>>

\* stop(), up to its first await.  Without a _runner_task attribute the cancel
\* line raises AttributeError after the flag was set.
stop ==
    /\ Allowed("stop")
    /\ calls' = calls + 1
    /\ stopping' = TRUE
    /\ IF runnerTask = 0
       THEN /\ Returned("stop", "AttributeError: _runner_task")
            /\ UNCHANGED <<runners, ready, sessionClosed>>
       ELSE /\ runners' = Cancel(runners, runnerTask)
            /\ ready' = CancelWake(ready, runnerTask)
            /\ IF stopped
               THEN sessionClosed' = TRUE /\ pc' = "stop_close"
               ELSE sessionClosed' = sessionClosed /\ pc' = "stop_wait"
            /\ UNCHANGED <<hook, raised>>
    /\ UNCHANGED <<network, contract, stopped, runnerTask, ticks, gauge,
                   stopReturns, completed, scraped>>

\* stop(), woken from `await self.stopped.wait()`: goes on to session.close().
stop_wakeup ==
    /\ AtHead(Handle("stop", 0))
    /\ pc = "stop_wait"
    /\ ready' = Tail(ready)
    /\ sessionClosed' = TRUE
    /\ pc' = "stop_close"
    /\ UNCHANGED <<network, contract, stopping, stopped, runnerTask, runners,
                   ticks, gauge, hook, raised, calls, stopReturns, completed,
                   scraped>>

\* stop(), after `await self.session.close()`: returns to its caller, in the
\* same step when close() does not suspend, in a later one when it does.
stop_return ==
    /\ pc = "stop_close"
    /\ Returned("stop", "none")
    /\ stopReturns' = stopReturns + 1
    /\ UNCHANGED <<network, contract, stopping, stopped, sessionClosed,
                   runnerTask, runners, ticks, ready, gauge, calls, completed,
                   scraped>>

\* ------------------------------------------------------------ GET /metrics
\* The samples the scrape route renders: one per label that was ever set.
Render(g) == {<<l, g[l].value>> : l \in {k \in Labels : g[k] # NoSample}}

scrape ==
    /\ hook = "serving"
    /\ scraped' = Render(gauge)
    /\ scraped' # scraped
    /\ UNCHANGED <<network, contract, stopping, stopped, sessionClosed,
                   runnerTask, runners, ticks, ready, gauge, pc, hook, raised,
                   calls, stopReturns, completed>>

\* ------------------------------------------------------------------ specs
Next ==
    \/ call_init
    \/ \E c \in ChainIds : init_resume(c)
    \/ init_fails
    \/ call_tick
    \/ \E t \in 1..MaxTicks : tick_begin(t)
    \/ \E t \in 1..MaxTicks : \E v \in Values : chain_call_returns(t, v)
    \/ \E t \in 1..MaxTicks : tick_resume(t)
    \/ \E t \in 1..MaxTicks : tick_raises(t)
    \/ start
    \/ \E r \in 1..MaxRunners : sleep(r)
    \/ \E r \in 1..MaxRunners : run(r)
    \/ \E r \in 1..MaxRunners : on_runner_task_done(r)
    \/ stop
    \/ stop_wakeup
    \/ stop_return

\* The scrape route exists only in the aiohttp application.
NextApp ==
    \/ Next
    \/ scrape

Spec == Init /\ [][Next]_vars

\* The steps the event loop itself takes: the head of the ready queue.
LoopStep ==
    \/ \E t \in 1..MaxTicks : tick_begin(t)
    \/ \E t \in 1..MaxTicks : tick_resume(t)
    \/ \E r \in 1..MaxRunners : run(r)
    \/ \E r \in 1..MaxRunners : on_runner_task_done(r)
    \/ stop_wakeup

\* The running loop executes every ready step, and session.close() returns.
\* Nothing is assumed of the caller, the timer or the RPC endpoint.
FairSpec == Spec /\ WF_vars(LoopStep) /\ WF_vars(stop_return)

SpecApp == InitApp /\ [][NextApp]_vars

\* ----------------------------------------------------------------- claims
LiveRunners == {r \in 1..Len(runners) : runners[r].phase \in {"created", "sleeping"}}

\* A tick spawned by run() writes the gauge in this step.
LoopWrite ==
    \E t \in 1..Len(ticks) :
        /\ ticks[t].origin = "loop"
        /\ ticks[t].phase = "resolved"
        /\ ticks'[t].phase = "done"

\* C1: once stop() has returned, no tick spawned by the poll loop writes the
\* gauge any more.
C1_NoGaugeWriteAfterStop == [][stopReturns >= 1 => ~LoopWrite]_vars

\* C2: a spawned tick whose contract call raises changes neither the gauge nor
\* the run() tasks nor the lifecycle flags; a run() task ends only when stop()
\* was called; and a tick whose call returned writes its value under the
\* resolved network's label.
C2_FaultIsolation ==
    [][ /\ \A t \in 1..Len(ticks) :
             (ticks[t].origin = "loop" /\ ticks[t].phase = "awaiting"
                 /\ ticks'[t].phase = "failed")
             => /\ gauge' = gauge
                /\ runners' = runners
                /\ stopping' = stopping
                /\ stopped' = stopped
        /\ \A r \in 1..Len(runners) :
             runners[r].phase \in {"done", "cancelled"} => stopping
        /\ \A t \in 1..Len(ticks) :
             (ticks[t].origin = "loop" /\ ticks[t].phase = "resolved"
                 /\ ticks'[t].phase = "done")
             => gauge'[NetworkValue(network)].value = ticks[t].value
      ]_vars

\* A spawned tick failed in its contract call, a tick spawned after it wrote
\* the gauge, and the loop is still polling.
C2_Witness ==
    /\ ~stopping
    /\ LiveRunners # {}
    /\ \E t1, t2 \in 1..Len(ticks) :
        /\ t1 < t2
        /\ ticks[t1].origin = "loop" /\ ticks[t1].phase = "failed"
        /\ ticks[t2].origin = "loop" /\ ticks[t2].phase = "done"
        /\ completed # <<>>
        /\ completed[Len(completed)].id = t2
        /\ gauge[completed[Len(completed)].label].value = completed[Len(completed)].value

\* C3: in the startup hook start() runs only after init() resolved the network
\* and the first, awaited tick() wrote the gauge; when init() or that tick()
\* raises, the hook fails with the exception, no run() task and no spawned tick
\* exists, and nothing further happens.
C3_FailFastStartup ==
    /\ hook = "failed" =>
        /\ raised # "none"
        /\ runners = <<>>
        /\ runnerTask = 0
        /\ \A t \in 1..Len(ticks) : ticks[t].origin # "loop"
        /\ ~ENABLED NextApp
    /\ hook = "init" => network = "unset" /\ ticks = <<>>
    /\ ticks # <<>> => network \in SupportedNetworks /\ ticks[1].origin = "call"
    /\ runners # <<>> =>
        /\ network \in SupportedNetworks
        /\ ticks # <<>>
        /\ ticks[1].phase = "done"
        /\ completed # <<>>
        /\ completed[1].id = 1

\* init() succeeded, the first tick() raised, the hook failed.
C3_Witness ==
    /\ hook = "failed"
    /\ network \in SupportedNetworks
    /\ raised = "CallError"

\* C4: start() on a running exporter leaves one poll loop, and when a following
\* stop() returns no poll loop task is alive.
C4_StartIdempotent ==
    [][ /\ ~stopping => Cardinality(LiveRunners) <= 1
        /\ (pc = "stop_close" /\ pc' = "idle") => LiveRunners' = {}
      ]_vars

\* C5: once a stop() has returned, a further stop() neither waits nor raises,
\* and the exporter stays stopped: flag set, event set, session closed.
C5_SecondStopReturns ==
    stopReturns >= 1 =>
        /\ stopping
        /\ stopped
        /\ sessionClosed
        /\ pc # "stop_wait"
        /\ raised # "AttributeError: _runner_task"

\* Two stop() calls have returned.
C5_Witness == stopReturns >= 2 /\ pc = "idle" /\ raised = "none"

\* The index of the last write under label l, 0 if there is none.
LastWriteTo(l) ==
    LET idx == {i \in 1..Len(completed) : completed[i].label = l}
    IN  IF idx = {} THEN 0 ELSE CHOOSE i \in idx : \A j \in idx : j <= i

\* C6: under every label the gauge holds the value of the tick that completed
\* last under that label, whatever the order the ticks were started in, and
\* holds nothing under a label no tick completed under.
C6_LastCompletedWins ==
    \A l \in Labels :
        IF LastWriteTo(l) = 0
        THEN gauge[l] = NoSample
        ELSE gauge[l].value = completed[LastWriteTo(l)].value

\* Two spawned ticks completed in the reverse of their start order with
\* different values, and the gauge holds the value of the one started first.
C6_Witness ==
    /\ Len(completed) = 2
    /\ completed[1].id > completed[2].id
    /\ ticks[completed[1].id].origin = "loop"
    /\ ticks[completed[2].id].origin = "loop"
    /\ completed[1].label = completed[2].label
    /\ completed[1].value # completed[2].value
    /\ gauge[completed[2].label].value = completed[2].value

\* C7: every sample of the gauge was read from the contract of the network its
\* label names, and nothing is written while no network is resolved.
C7_LabelMatchesContract ==
    /\ \A n \in SupportedNetworks :
         gauge[NetworkValue(n)] # NoSample
         => gauge[NetworkValue(n)].src = hyperlane_merkle_tree_hook_contract(n)
    /\ network = "unset" => completed = <<>>

\* C8: once resolved, the network never changes.
C8_NetworkResolvedOnce == [][network # "unset" => network' = network]_vars

\* C9: init() resolves chain id 1 to MAINNET and 17000 to HOLESKY and returns;
\* for any other chain id it raises and leaves the network as it was; each
\* network has its own non-empty contract address.
C9_NetworkResolution ==
    [][ /\ \A c \in ChainIds :
             init_resume(c) =>
                 /\ c = 1 => network' = "MAINNET" /\ raised' = "none"
                 /\ c = 17000 => network' = "HOLESKY" /\ raised' = "none"
                 /\ c \notin {1, 17000} =>
                      /\ raised' = "RuntimeError: Unsupported network"
                      /\ network' = network
        /\ \A n \in SupportedNetworks :
             hyperlane_merkle_tree_hook_contract(n) \notin {"", "RuntimeError"}
        /\ hyperlane_merkle_tree_hook_contract("MAINNET")
             # hyperlane_merkle_tree_hook_contract("HOLESKY")
      ]_vars

\* init() was answered an unsupported chain id: it raised, nothing is resolved.
C9_Witness ==
    /\ network = "unset"
    /\ raised = "RuntimeError: Unsupported network"

\* C10: while the startup tick() is the only gauge write, the gauge holds one
\* sample, labelled with the resolved network's name and carrying the value
\* that tick's contract call returned, and a scrape renders exactly it.
C10_FirstTickPublished ==
    (hook \in {"start", "serving"} /\ Len(completed) = 1) =>
        /\ Render(gauge) = {<<NetworkValue(network), completed[1].value>>}
        /\ scraped # {} => scraped = Render(gauge)

\* The application serves, only the startup tick wrote, a scrape was answered.
C10_Witness ==
    /\ hook = "serving"
    /\ Len(completed) = 1
    /\ ticks[1].origin = "call"
    /\ scraped = {<<NetworkValue(network), completed[1].value>>}

\* C11: once a stop() has returned no run() task creates a tick any more, be it
\* the task stop() cancelled, an earlier one that start() overwrote, or one
\* started afterwards; and no created tick is then still waiting to begin.
C11_NoSpawnAfterStop ==
    [][stopReturns >= 1 =>
          /\ Len(ticks') > Len(ticks) => ticks'[Len(ticks')].origin # "loop"
          /\ \A t \in 1..Len(ticks) : ticks[t].phase # "created"
      ]_vars

\* A first loop spawned a tick, start() replaced it by a second one, stop()
\* cancelled only the second and returned; the first woke up afterwards and
\* left its loop without spawning.
C11_Witness ==
    /\ stopReturns >= 1
    /\ Len(runners) = 2
    /\ runners[1].phase = "done" /\ ~runners[1].cancelReq
    /\ runners[2].phase = "cancelled"
    /\ \E t \in 1..Len(ticks) : ticks[t].origin = "loop"

\* C12: stop() sets the flag and asks for the cancellation of the loop task
\* before it waits; the session is closed only in a step that finds the event
\* set; and a stop() that returns leaves the session closed and the event set.
C12_ShutdownOrdering ==
    [][ /\ (pc = "idle" /\ pc' \in {"stop_wait", "stop_close"}) =>
             /\ stopping'
             /\ \/ runners'[runnerTask].cancelReq
                \/ runners'[runnerTask].phase \in {"done", "cancelled"}
             /\ pc' = "stop_wait" <=> ~stopped
        /\ (~sessionClosed /\ sessionClosed') => stopping /\ stopped
        /\ sessionClosed => stopped /\ stopping
        /\ stopReturns' > stopReturns => sessionClosed' /\ stopped'
      ]_vars

\* stop() waited for the cancelled loop task, closed the session and returned.
C12_Witness ==
    /\ stopReturns = 1
    /\ pc = "idle"
    /\ runnerTask # 0
    /\ runners[runnerTask].phase = "cancelled"
    /\ stopped
    /\ sessionClosed

\* C13: a stop() that got past the cancel line (start() was called before)
\* eventually returns, and while it waits the event is eventually set.
C13_StopTerminates ==
    /\ (pc \in {"stop_wait", "stop_close"}) ~> (pc = "idle" /\ raised = "none")
    /\ (pc = "stop_wait") ~> stopped

\* stop() waits for a run() task that has not taken its first step yet.
C13_Witness ==
    /\ pc = "stop_wait"
    /\ runners[runnerTask].phase = "created"
    /\ runners[runnerTask].cancelReq
    /\ ~stopped

\* C14: a tick that writes, under the label of the previous write, the value
\* of the previous write leaves every sample of the gauge as it was: the same
\* labels with the same values.
C14_TickIdempotent ==
    [][\A t \in 1..Len(ticks) :
          ( /\ ticks[t].phase = "resolved"
            /\ ticks'[t].phase = "done"
            /\ completed # <<>>
            /\ completed[Len(completed)].label = NetworkValue(network)
            /\ completed[Len(completed)].value = ticks[t].value )
          => /\ Render(gauge') = Render(gauge)
             /\ gauge'[NetworkValue(network)].value = ticks[t].value
      ]_vars

\* Two awaited tick() calls returned the same value: one sample, that value.
C14_Witness ==
    /\ Len(completed) = 2
    /\ ticks[completed[1].id].origin = "call"
    /\ ticks[completed[2].id].origin = "call"
    /\ completed[1].label = completed[2].label
    /\ completed[1].value = completed[2].value
    /\ Render(gauge) = {<<completed[1].label, completed[1].value>>}

\* C15: whatever the ticks in flight are doing, a run() task that is due, not
\* cancelled and not stopping (and within MaxTicks) takes its step, in which it
\* creates exactly one tick, touches no earlier tick and goes to sleep; and the
\* sleep of a run() task ends whatever the ticks are doing.
C15_FireAndForget ==
    /\ \A r \in 1..Len(runners) :
         ( /\ AtHead(Handle("run", r))
           /\ ~runners[r].cancelReq
           /\ ~stopping
           /\ Len(ticks) < MaxTicks )
         => ENABLED ( /\ run(r)
                      /\ Len(ticks') = Len(ticks) + 1
                      /\ ticks'[Len(ticks')] = NewTick("loop", "created")
                      /\ \A t \in 1..Len(ticks) : ticks'[t] = ticks[t]
                      /\ runners'[r].phase = "sleeping" )
    /\ \A r \in 1..Len(runners) :
         (runners[r].phase = "sleeping" /\ ~InReady(ready, Handle("run", r)))
         => ENABLED sleep(r)

\* One loop has two of its ticks suspended in the contract call at once and is
\* asleep, not stopping.
C15_Witness ==
    /\ Len(runners) = 1
    /\ runners[1].phase = "sleeping"
    /\ ~stopping
    /\ Len(ticks) = 2
    /\ \A t \in 1..2 : ticks[t].origin = "loop" /\ ticks[t].phase = "awaiting"

\* C16: the gauge changes only in the step in which a tick resumes from a
\* contract call that returned, each tick writes at most once, and a tick that
\* failed or crashed has written nothing.
C16_NoPartialWrites ==
    [][ /\ gauge' # gauge =>
             \E t \in 1..Len(ticks) :
                 /\ ticks[t].phase = "resolved"
                 /\ ticks'[t].phase = "done"
                 /\ completed' = Append(completed,
                        [id |-> t, label |-> NetworkValue(network),
                         value |-> ticks[t].value])
        /\ completed' # completed => Len(completed') = Len(completed) + 1
        /\ \A i, j \in 1..Len(completed) :
             completed[i].id = completed[j].id => i = j
        /\ \A i \in 1..Len(completed) : ticks[completed[i].id].phase = "done"
      ]_vars

\* A spawned tick failed in its contract call after an earlier tick had
\* written: the gauge still holds the earlier tick's sample, written once.
C16_Witness ==
    /\ Len(completed) = 1
    /\ \E t \in 1..Len(ticks) :
         /\ ticks[t].origin = "loop"
         /\ ticks[t].phase = "failed"
         /\ t > completed[1].id
    /\ Render(gauge) = {<<completed[1].label, completed[1].value>>}

\* C17: a stop() on an exporter start() was never called on sets the flag and
\* raises AttributeError without suspending; the event stays unset and the
\* session open, however often stop() is called, until start() is.
C17_StopBeforeStart ==
    [][ /\ (stop /\ runnerTask = 0) =>
             /\ stopping'
             /\ pc' = "idle"
             /\ raised' = "AttributeError: _runner_task"
             /\ ~stopped'
             /\ ~sessionClosed'
             /\ stopReturns' = stopReturns
        /\ runners = <<>> => runnerTask = 0 /\ ~stopped /\ ~sessionClosed
      ]_vars

\* init() succeeded, start() was never called, stop() raised.
C17_Witness ==
    /\ network \in SupportedNetworks
    /\ runners = <<>>
    /\ pc = "idle"
    /\ raised = "AttributeError: _runner_task"
    /\ stopping
    /\ ~stopped
    /\ ~sessionClosed

\* C18: the flag, once true, stays true and the event, once set, stays set;
\* and a run() task that takes its first step while the flag is true ends in
\* that step without creating a tick.
C18_FlagsMonotone ==
    [][ /\ stopping => stopping'
        /\ stopped => stopped'
        /\ \A r \in 1..Len(runners) :
             ( /\ stopping
               /\ runners[r].phase = "created"
               /\ runners'[r].phase # "created" )
             => /\ runners'[r].phase \in {"done", "cancelled"}
                /\ ticks' = ticks
      ]_vars

\* start() after a stop() that returned: the new run() task found the flag
\* set, left its loop at once and set the event again; no tick was ever spawned.
C18_Witness ==
    /\ stopReturns = 1
    /\ Len(runners) = 2
    /\ runners[1].phase = "cancelled"
    /\ runners[2].phase = "done" /\ ~runners[2].cancelReq
    /\ \A t \in 1..Len(ticks) : ticks[t].origin = "call"
    /\ stopping /\ stopped
====
